---------------------------- MODULE Spec2Model ----------------------------
(* A model of modchecker.py: the Modrinth mod version checker/updater.      *)
(*                                                                          *)
(* The configuration file is a sequence of lines.  A line is a record of    *)
(* exactly what the code inspects or preserves:                             *)
(*   kind   "mods"    the line  [[mods]]                                    *)
(*          "sect"    any other [[...]] array-of-tables header              *)
(*          "type"    type = "<val>"                                        *)
(*          "id"      id = "<val>"                                          *)
(*          "version" version = "<val>"                                     *)
(*          "text"    anything else (comment, blank, other key)             *)
(*   val    the quoted value ("" when the kind has none)                    *)
(*   indent the number of leading blanks                                    *)
(*   trail  the text after the closing quote ("" or a trailing comment)     *)
(*   nl     TRUE when the line ends with a line terminator                  *)
EXTENDS Integers, Sequences, FiniteSets, TLC

VARIABLES
    file,               \* content of the configuration file on disk
    config,             \* ModManager.config["mods"]: the list parsed at start
    mode,               \* "check" | "update" | "slugs" | "patch" | "filter"
    specific_mods,      \* the ids given to --update (empty: all)
    jar_type,           \* config["jar"]["type"] as written in the file
    mod_loader,         \* ModManager.mod_loader
    mc_version,         \* ModManager.mc_version
    idx,                \* position of the loop over config["mods"]
    needs_update,       \* check_mods: list of ids needing an update
    updates_performed,  \* check_mods: counter
    slugs_updated,      \* update_slugs: counter
    step,               \* what the last loop iteration saw and did
    call,               \* the last TomlHandler patch call
    versions,           \* last version list returned by the registry
    filtered,           \* last result of get_mod_versions
    current_ver,        \* get_version_color: version_number of the current version
    latest_ver,         \* get_version_color: version_number of the latest version
    color               \* get_version_color: the colour returned

vars == <<file, config, mode, specific_mods, jar_type, mod_loader, mc_version, idx,
          needs_update, updates_performed, slugs_updated, step, call,
          versions, filtered, current_ver, latest_ver, color>>

-----------------------------------------------------------------------------
(* Bounds *)

MaxBlocks == 2      \* blocks in a generated configuration file
MaxVersions == 3    \* length of a registry version list in the filter spec
MaxParts == 3       \* dot-separated components of a generated version number

-----------------------------------------------------------------------------
(* Lines and their stripped text *)

Missing == ""       \* dict.get() of an absent key: falsy, like ""

Line(kind, val, indent, trail, nl) ==
    [kind |-> kind, val |-> val, indent |-> indent, trail |-> trail, nl |-> nl]

\* line.strip() == "[[mods]]"
IsModsHeader(l) == l.kind = "mods" /\ l.trail = ""

\* line.strip().startswith("[[")
StartsSection(l) == l.kind \in {"mods", "sect"}

\* line.strip() == f'id = "{mod_id}"'
IsIdLine(l, mod_id) == l.kind = "id" /\ l.val = mod_id /\ l.trail = ""

\* line.strip().startswith("version = ")
IsVersionLine(l) == l.kind = "version"

Min(a, b) == IF a <= b THEN a ELSE b

-----------------------------------------------------------------------------
(* TomlHandler._read_file_lines / _write_file_lines *)

\* readOk = FALSE: open() raised IOError, None is returned.
ReadFileLines(content, readOk) == IF readOk THEN content ELSE <<>>

\* wo = -1: open(file_path, "w") raises, the file is untouched.
\* 0 <= wo < Len(lines): open() truncated the file and writelines raised
\*      after wo lines had reached the disk.
\* wo >= Len(lines): the write succeeds.
WriteFileLines(content, lines, wo) ==
    IF wo < 0 THEN [ok |-> FALSE, content |-> content]
    ELSE IF wo < Len(lines) THEN [ok |-> FALSE, content |-> SubSeq(lines, 1, wo)]
    ELSE [ok |-> TRUE, content |-> lines]

WriteStatus(lines, wo) ==
    IF wo < 0 THEN "open_failed"
    ELSE IF wo < Len(lines) THEN "write_failed" ELSE "ok"

-----------------------------------------------------------------------------
(* TomlHandler.update_version *)

\* in_mod_section after the loop body has run on lines 1..n
RECURSIVE InModSection(_, _)
InModSection(lines, n) ==
    IF n = 0 THEN FALSE
    ELSE IF IsModsHeader(lines[n]) THEN TRUE
    ELSE IF InModSection(lines, n - 1) /\ n > 1 /\ StartsSection(lines[n])
              /\ ~IsModsHeader(lines[n])
         THEN FALSE
         ELSE InModSection(lines, n - 1)

\* the first line at which the loop finds the mod id (0: none)
FindModId(lines, mod_id) ==
    LET hits == {i \in 1..Len(lines) :
                    InModSection(lines, i - 1) /\ IsIdLine(lines[i], mod_id)}
    IN  IF hits = {} THEN 0 ELSE CHOOSE i \in hits : \A k \in hits : i <= k

\* for j in range(i + 1, min(i + 5, len(lines))): first version line (0: none)
FindVersionLine(lines, i) ==
    LET hits == {j \in (i + 1)..Min(i + 4, Len(lines)) : IsVersionLine(lines[j])}
    IN  IF i = 0 \/ hits = {} THEN 0
        ELSE CHOOSE j \in hits : \A k \in hits : j <= k

\* f'{indent}version = "{new_version}"\n'
NewVersionLine(l, new_version) == Line("version", new_version, l.indent, "", TRUE)

\* result: the new file content, the returned bool and what was done
UpdateVersion(content, mod_id, new_version, readOk, wo) ==
    LET lines == ReadFileLines(content, readOk)
        i     == FindModId(lines, mod_id)
        j     == FindVersionLine(lines, i)
        new   == [lines EXCEPT ![j] = NewVersionLine(lines[j], new_version)]
        w     == WriteFileLines(content, new, wo)
    IN  IF lines = <<>> \/ j = 0
        THEN [content |-> content, result |-> FALSE, wrote |-> "none", line |-> 0]
        ELSE [content |-> w.content, result |-> w.ok,
              wrote |-> WriteStatus(new, wo), line |-> j]

-----------------------------------------------------------------------------
(* TomlHandler.update_id_to_slug *)

FindIdAnywhere(lines, mod_id) ==
    LET hits == {i \in 1..Len(lines) : IsIdLine(lines[i], mod_id)}
    IN  IF hits = {} THEN 0 ELSE CHOOSE i \in hits : \A k \in hits : i <= k

\* f'{indent}id = "{slug}"\n'
NewIdLine(l, slug) == Line("id", slug, l.indent, "", TRUE)

UpdateIdToSlug(content, mod_id, slug, readOk, wo) ==
    LET lines == ReadFileLines(content, readOk)
        i     == FindIdAnywhere(lines, mod_id)
        new   == [lines EXCEPT ![i] = NewIdLine(lines[i], slug)]
        w     == WriteFileLines(content, new, wo)
    IN  IF lines = <<>> \/ i = 0
        THEN [content |-> content, result |-> FALSE, wrote |-> "none", line |-> 0]
        ELSE [content |-> w.content, result |-> w.ok,
              wrote |-> WriteStatus(new, wo), line |-> i]

-----------------------------------------------------------------------------
(* TomlHandler.load_config: tomli.load() of the file, the "mods" array *)

\* the lines of the block that starts at header line h
BlockEnd(lines, h) ==
    LET nxt == {k \in (h + 1)..Len(lines) : StartsSection(lines[k])}
    IN  IF nxt = {} THEN Len(lines)
        ELSE (CHOOSE k \in nxt : \A m \in nxt : k <= m) - 1

BlockLines(lines, h) == (h + 1)..BlockEnd(lines, h)

\* the value of key `kind` in the block at h (Missing when absent)
FieldOf(lines, h, kind) ==
    LET ks == {k \in BlockLines(lines, h) : lines[k].kind = kind}
    IN  IF ks = {} THEN Missing ELSE lines[CHOOSE k \in ks : TRUE].val

ModsHeaders(lines) == {h \in 1..Len(lines) : lines[h].kind = "mods"}

RECURSIVE SortedSeq(_)
SortedSeq(S) ==
    IF S = {} THEN <<>>
    ELSE LET m == CHOOSE x \in S : \A y \in S : x <= y
         IN  <<m>> \o SortedSeq(S \ {m})

\* config["mods"]: one dict per [[mods]] block, in file order
LoadConfig(lines) ==
    LET hs == SortedSeq(ModsHeaders(lines))
    IN  [n \in 1..Len(hs) |->
            [type    |-> FieldOf(lines, hs[n], "type"),
             id      |-> FieldOf(lines, hs[n], "id"),
             version |-> FieldOf(lines, hs[n], "version")]]

-----------------------------------------------------------------------------
(* Configuration files the program can be started on: valid TOML, every    *)
(* block holding each key at most once.                                     *)

Hdr == Line("mods", "", 0, "", TRUE)
Txt == Line("text", "", 0, "", TRUE)
Fld(kind, val) == Line(kind, val, 0, "", TRUE)

\* a [[mods]] block in one of the layouts a hand-written file shows
Block(layout, type, id, ver) ==
    CASE layout = "std"      -> <<Hdr, Fld("type", type), Fld("id", id), Fld("version", ver)>>
      [] layout = "verFirst" -> <<Hdr, Fld("type", type), Fld("version", ver), Fld("id", id)>>
      [] layout = "noVer"    -> <<Hdr, Fld("type", type), Fld("id", id)>>
      [] layout = "far"      -> <<Hdr, Fld("id", id), Fld("type", type), Txt, Txt, Txt,
                                  Fld("version", ver)>>
      [] layout = "comment"  -> <<Hdr, Fld("type", type), Fld("id", id),
                                  Line("version", ver, 0, " # pinned", TRUE)>>
      [] layout = "indent"   -> <<Hdr, Line("type", type, 2, "", TRUE),
                                  Line("id", id, 2, "", TRUE),
                                  Line("version", ver, 2, "", TRUE)>>
      [] layout = "section"  -> <<Line("sect", "", 0, "", TRUE), Fld("id", id),
                                  Fld("version", ver)>>

\* the last line of a file may lack its terminator
DropLastNl(lines) == [lines EXCEPT ![Len(lines)].nl = FALSE]

RECURSIVE Concat(_)
Concat(blocks) ==
    IF blocks = <<>> THEN <<>> ELSE Head(blocks) \o Concat(Tail(blocks))

SeqsUpTo(S, n) == UNION {[1..k -> S] : k \in 1..n}

FilesOf(blocks) ==
    LET bodies == {Concat(bs) : bs \in SeqsUpTo(blocks, MaxBlocks)}
    IN  bodies \cup {DropLastNl(b) : b \in bodies}

-----------------------------------------------------------------------------
(* Values left untouched by a specification that does not use them *)

NoStep ==
    [kind |-> "none", skipped |-> FALSE, infoOk |-> FALSE, versOk |-> FALSE,
     needs |-> FALSE, prompted |-> FALSE, accepted |-> FALSE,
     refetched |-> FALSE, refetchOk |-> FALSE]
NoCall ==
    [op |-> "none", mod_id |-> "", new |-> "", readOk |-> TRUE, before |-> <<>>,
     result |-> FALSE, wrote |-> "none", line |-> 0]

(* The patch operations on their own: one call on any file *)

PatchLayouts == {"std", "verFirst", "noVer", "far", "comment", "indent", "section"}
PatchIds == {"a", "ab"}
PatchBlocks == {Block(l, "modrinth", i, "v1") : l \in PatchLayouts, i \in PatchIds}
PatchFiles == FilesOf(PatchBlocks)

\* what the caller passes and what came back
CallRecord(op, mod_id, new, readOk, before, r) ==
    [op |-> op, mod_id |-> mod_id, new |-> new, readOk |-> readOk,
     before |-> before, result |-> r.result, wrote |-> r.wrote, line |-> r.line]

InitPatch ==
    /\ file \in PatchFiles
    /\ config = <<>>
    /\ mode = "patch"
    /\ specific_mods = {}
    /\ jar_type = <<>>
    /\ mod_loader = <<>>
    /\ mc_version = ""
    /\ idx = 1
    /\ needs_update = <<>>
    /\ updates_performed = 0
    /\ slugs_updated = 0
    /\ step = NoStep
    /\ call = NoCall
    /\ versions = <<>>
    /\ filtered = <<>>
    /\ current_ver = <<>> /\ latest_ver = <<>> /\ color = "none"

PatchUnchanged ==
    UNCHANGED <<config, mode, specific_mods, jar_type, mod_loader, mc_version, idx,
                needs_update, updates_performed, slugs_updated, step,
                versions, filtered, current_ver, latest_ver, color>>

CallUpdateVersion ==
    /\ mode = "patch" /\ call = NoCall
    /\ \E mod_id \in PatchIds \cup {"abc"}, readOk \in BOOLEAN, wo \in -1..Len(file) :
          LET r == UpdateVersion(file, mod_id, "v2", readOk, wo)
          IN  /\ file' = r.content
              /\ call' = CallRecord("update_version", mod_id, "v2", readOk, file, r)
    /\ PatchUnchanged

CallUpdateIdToSlug ==
    /\ mode = "patch" /\ call = NoCall
    /\ \E mod_id \in PatchIds \cup {"abc"}, readOk \in BOOLEAN, wo \in -1..Len(file) :
          LET r == UpdateIdToSlug(file, mod_id, "slug", readOk, wo)
          IN  /\ file' = r.content
              /\ call' = CallRecord("update_id_to_slug", mod_id, "slug", readOk, file, r)
    /\ PatchUnchanged

NextPatch == CallUpdateVersion \/ CallUpdateIdToSlug

SpecPatch == InitPatch /\ [][NextPatch]_vars

-----------------------------------------------------------------------------
(* What the patch operations are required to do, stated on the file alone *)

ChangedLines(before, after) ==
    {k \in 1..Min(Len(before), Len(after)) : before[k] # after[k]}

\* an identifier line whose value is exactly mod_id
HasId(l, mod_id) == l.kind = "id" /\ l.val = mod_id

\* the [[mods]] blocks that declare mod_id
BlocksOf(lines, mod_id) ==
    {h \in ModsHeaders(lines) : \E k \in BlockLines(lines, h) : HasId(lines[k], mod_id)}

\* the version fields that follow the identifier line inside block h
VersionsAfterId(lines, h, mod_id) ==
    {t \in BlockLines(lines, h) :
        /\ lines[t].kind = "version"
        /\ \E k \in BlockLines(lines, h) : HasId(lines[k], mod_id) /\ k < t}

\* the lines update_version may change: per declaring block, the first
\* version field after the identifier line
Targets(lines, mod_id) ==
    {t \in 1..Len(lines) :
        \E h \in BlocksOf(lines, mod_id) :
            /\ t \in VersionsAfterId(lines, h, mod_id)
            /\ \A u \in VersionsAfterId(lines, h, mod_id) : t <= u}

IoFineOf(c) == c.readOk /\ c.wrote \in {"none", "ok"}
IoFine == IoFineOf(call)

\* C2: update_version succeeds exactly when some [[mods]] block holds an
\* identifier line equal to mod_id followed, inside that block, by a version
\* field, and then the one line it changes is the first version field after
\* the identifier line of that block (read and write not failing).
C2_SuccessIffTargetInBlock ==
    (call.op = "update_version" /\ IoFine) =>
        /\ call.result <=> Targets(call.before, call.mod_id) # {}
        /\ call.result =>
              /\ Len(file) = Len(call.before)
              /\ \E t \in Targets(call.before, call.mod_id) :
                    ChangedLines(call.before, file) = {t}

\* C3: after a successful update_version the file differs from the original
\* only in the quoted value of one version field: every other line is the
\* same and the patched line keeps its indentation, the text after the
\* closing quote and its line terminator.
C3_OnlyValueSpanChanges ==
    (call.op = "update_version" /\ call.result) =>
        /\ Len(file) = Len(call.before)
        /\ \E j \in 1..Len(file) :
              /\ call.before[j].kind = "version"
              /\ file[j] = [call.before[j] EXCEPT !.val = call.new]
              /\ \A k \in 1..Len(file) : k # j => file[k] = call.before[k]

\* C4: a patch operation is atomic: whatever fails, the file afterwards is
\* the complete original or the complete content with one line changed, and
\* after a failed operation it is the original.
C4_PatchIsAtomic ==
    (call.op \in {"update_version", "update_id_to_slug"}) =>
        /\ \/ file = call.before
           \/ /\ Len(file) = Len(call.before)
              /\ Cardinality(ChangedLines(call.before, file)) = 1
        /\ ~call.result => file = call.before

\* C5: when no identifier line equals the requested identifier, or no block
\* declaring it has a version field, update_version returns failure, does
\* not write and leaves the file as it was; update_id_to_slug does the same
\* when the old identifier does not occur.
C5_NotFoundLeavesFile ==
    /\ ( /\ call.op = "update_version"
         /\ \/ \A k \in 1..Len(call.before) : ~HasId(call.before[k], call.mod_id)
            \/ /\ BlocksOf(call.before, call.mod_id) # {}
               /\ \A h \in BlocksOf(call.before, call.mod_id) :
                     FieldOf(call.before, h, "version") = Missing )
       => (~call.result /\ call.wrote = "none" /\ file = call.before)
    /\ ( /\ call.op = "update_id_to_slug"
         /\ \A k \in 1..Len(call.before) : ~HasId(call.before[k], call.mod_id) )
       => (~call.result /\ call.wrote = "none" /\ file = call.before)

-----------------------------------------------------------------------------
(* Loader names are sequences of characters, so that str.lower() is a      *)
(* computation on them.                                                     *)

fabric == <<"f", "a", "b", "r", "i", "c">>
Fabric == <<"F", "a", "b", "r", "i", "c">>
FABRIC == <<"F", "A", "B", "R", "I", "C">>
forge  == <<"f", "o", "r", "g", "e">>

LowerChar(c) ==
    CASE c = "A" -> "a" [] c = "B" -> "b" [] c = "C" -> "c" [] c = "E" -> "e"
      [] c = "F" -> "f" [] c = "G" -> "g" [] c = "I" -> "i" [] c = "O" -> "o"
      [] c = "R" -> "r" [] OTHER -> c

\* str.lower()
Lower(str) == [n \in DOMAIN str |-> LowerChar(str[n])]

-----------------------------------------------------------------------------
(* ModrinthClient._filter_versions and get_mod_versions *)

Version(id, loaders, game_versions, date, number) ==
    [id |-> id, loaders |-> loaders, game_versions |-> game_versions,
     date_published |-> date, version_number |-> number]

\* the loaders compared as spelled, without lower-casing them
LoaderMatchesAsSpelled(v, loader) == loader \in v.loaders

\* mod_loader in [loader.lower() for loader in v.get("loaders", [])]
LoaderMatches(v, loader) == loader \in {Lower(l) : l \in v.loaders}

\* mc_version in v.get("game_versions", [])
GameVersionMatches(v, mc) == mc \in v.game_versions

FilterVersions(vs, mc, loader) ==
    SelectSeq(vs, LAMBDA v : LoaderMatches(v, loader) /\ GameVersionMatches(v, mc))

\* one step of the stable sort with reverse=True: v goes behind every entry
\* that is at least as new
InsertNewestFirst(sorted, v) ==
    LET ahead == Cardinality({n \in 1..Len(sorted) :
                                 sorted[n].date_published >= v.date_published})
    IN  SubSeq(sorted, 1, ahead) \o <<v>> \o SubSeq(sorted, ahead + 1, Len(sorted))

\* list.sort(key=date_published, reverse=True)
RECURSIVE SortNewestFirst(_)
SortNewestFirst(vs) ==
    IF vs = <<>> THEN <<>>
    ELSE InsertNewestFirst(SortNewestFirst(SubSeq(vs, 1, Len(vs) - 1)), vs[Len(vs)])

\* fetchOk = FALSE: requests raised, [] is returned
GetModVersions(vs, fetchOk, mc, loader) ==
    IF fetchOk THEN SortNewestFirst(FilterVersions(vs, mc, loader)) ELSE <<>>

-----------------------------------------------------------------------------
(* The version filter on its own: any version list, any spelling of the    *)
(* loader in the configuration file                                         *)

FilterUniverse ==
    {Version(id, {l}, {g}, d, "1.0.0") :
        id \in {"AAA", "BBB"}, l \in {Fabric, forge}, g \in {"1.20.1", "1.20"},
        d \in {1, 2}}

FilterLists == {<<>>} \cup SeqsUpTo(FilterUniverse, MaxVersions)

InitFilter ==
    /\ file = <<>>
    /\ config = <<>>
    /\ mode = "filter"
    /\ specific_mods = {}
    /\ jar_type \in {fabric, Fabric, FABRIC}
    /\ mod_loader = Lower(jar_type)         \* main(): .get("type", "fabric").lower()
    /\ mc_version \in {"1.20.1", "1.20"}
    /\ idx = 1
    /\ needs_update = <<>>
    /\ updates_performed = 0
    /\ slugs_updated = 0
    /\ step = NoStep
    /\ call = NoCall
    /\ versions = <<>>
    /\ filtered = <<>>
    /\ current_ver = <<>> /\ latest_ver = <<>> /\ color = "none"

CallGetModVersions ==
    /\ mode = "filter" /\ step = NoStep
    /\ \E vs \in FilterLists, fetchOk \in BOOLEAN :
          /\ versions' = vs
          /\ filtered' = GetModVersions(vs, fetchOk, mc_version, mod_loader)
          /\ step' = [NoStep EXCEPT !.kind = "filter", !.versOk = fetchOk]
    /\ UNCHANGED <<file, config, mode, specific_mods, jar_type, mod_loader,
                   mc_version, idx, needs_update, updates_performed,
                   slugs_updated, call, current_ver, latest_ver, color>>

NextFilter == CallGetModVersions

SpecFilter == InitFilter /\ [][NextFilter]_vars

\* the positions of the input that pass both constraints, as the claim words
\* them: loader compared case-insensitively, game version exactly
MatchingPositions(vs, mc, target_loader) ==
    {n \in 1..Len(vs) :
        /\ \E l \in vs[n].loaders : Lower(l) = Lower(target_loader)
        /\ mc \in vs[n].game_versions}

\* C9: the filtered and sorted list holds exactly the input versions whose
\* loaders contain the target loader case-insensitively and whose game
\* versions contain the target exactly; it is ordered non-increasing by
\* publication date, versions of equal date keep their input order, and an
\* empty input or no match gives an empty list.
C9_FilterSortedStable ==
    (step.kind = "filter" /\ step.versOk) =>
        LET M == MatchingPositions(versions, mc_version, jar_type)
        IN  /\ Len(filtered) = Cardinality(M)
            /\ \E pos \in [1..Len(filtered) -> M] :
                  /\ \A n \in 1..Len(filtered) : filtered[n] = versions[pos[n]]
                  /\ \A n, m \in 1..Len(filtered) : n < m =>
                        \/ versions[pos[n]].date_published > versions[pos[m]].date_published
                        \/ /\ versions[pos[n]].date_published = versions[pos[m]].date_published
                           /\ pos[n] < pos[m]

\* a list where two matching versions share a date and a newer one follows
C9_Witness ==
    /\ step.kind = "filter" /\ step.versOk
    /\ jar_type = FABRIC
    /\ Len(filtered) = 3 /\ Len(versions) = 3
    /\ versions[1].date_published = 1 /\ versions[2].date_published = 1
    /\ versions[3].date_published = 2
    /\ versions[1].id # versions[2].id
    /\ filtered = <<versions[3], versions[1], versions[2]>>

-----------------------------------------------------------------------------
(* ModrinthClient.get_mod_info: the registry knows one project, under its  *)
(* id and under its slug                                                    *)

Project == [id |-> "P1", slug |-> "s1", title |-> "Fabric API"]
NoProject == [id |-> Missing, slug |-> Missing, title |-> Missing]

\* fetchOk = FALSE: requests raised, None is returned
GetModInfo(mod_id, fetchOk) ==
    IF fetchOk /\ mod_id \in {Project.id, Project.slug} THEN Project ELSE NoProject

-----------------------------------------------------------------------------
(* ModManager.display_mod_status and what it calls *)

\* an update is seen only when the declared version is not in the list
NeedsUpdateOnlyIfUnknown(vs, current_version_id) ==
    {n \in 1..Len(vs) : vs[n].id = current_version_id} = {}

\* next((v for v in versions if v["id"] == current_version_id), None)
CurrentVersion(vs, current_version_id) ==
    {n \in 1..Len(vs) : vs[n].id = current_version_id}

\* needs_update = not current_version or latest_version["id"] != current_version_id
NeedsUpdate(vs, current_version_id) ==
    CurrentVersion(vs, current_version_id) = {} \/ vs[1].id # current_version_id

NoUpdate(content) ==
    [updated |-> 0, content |-> content, prompted |-> FALSE, accepted |-> FALSE,
     refetched |-> FALSE, call |-> NoCall]

\* every accepted update counted, written or not
PerformUpdateCountingAttempts(mod_id, latest_version, content, env) ==
    IF ~env.answer
    THEN [updated |-> 0, content |-> content, prompted |-> TRUE, accepted |-> FALSE,
          refetched |-> FALSE, call |-> NoCall]
    ELSE LET mod_info == GetModInfo(mod_id, env.refetchOk)
             r == UpdateVersion(content, mod_info.slug, latest_version.id,
                                env.readOk, env.wo)
         IN  IF mod_info = NoProject
             THEN [updated |-> 0, content |-> content, prompted |-> TRUE,
                   accepted |-> TRUE, refetched |-> TRUE, call |-> NoCall]
             ELSE [updated |-> 1, content |-> r.content,
                   prompted |-> TRUE, accepted |-> TRUE, refetched |-> TRUE,
                   call |-> CallRecord("update_version", mod_info.slug,
                                       latest_version.id, env.readOk, content, r)]

\* env: the answer at the prompt, the outcome of the second project fetch,
\* of the read and of the write
PerformUpdate(mod_id, latest_version, content, env) ==
    IF ~env.answer
    THEN [NoUpdate(content) EXCEPT !.prompted = TRUE]
    ELSE LET mod_info == GetModInfo(mod_id, env.refetchOk)
             r == UpdateVersion(content, mod_info.slug, latest_version.id,
                                env.readOk, env.wo)
         IN  IF mod_info = NoProject
             THEN [NoUpdate(content) EXCEPT !.prompted = TRUE, !.accepted = TRUE,
                                            !.refetched = TRUE]
             ELSE [updated |-> IF r.result THEN 1 ELSE 0, content |-> r.content,
                   prompted |-> TRUE, accepted |-> TRUE, refetched |-> TRUE,
                   call |-> CallRecord("update_version", mod_info.slug,
                                       latest_version.id, env.readOk, content, r)]

\* the prompt and the update offered whatever the mode
HandleUpdateNeededInAnyMode(latest_version, mod_id, update_mode, content, env) ==
    PerformUpdate(mod_id, latest_version, content, env)

HandleUpdateNeeded(latest_version, mod_id, update_mode, content, env) ==
    IF update_mode THEN PerformUpdate(mod_id, latest_version, content, env)
    ELSE NoUpdate(content)

\* returns needs_update, updates_performed and the effects on the file
DisplayModStatus(mod_info, vs, current_version_id, update_mode, content, env) ==
    IF vs = <<>> THEN [needs |-> FALSE, u |-> NoUpdate(content)]
    ELSE IF NeedsUpdate(vs, current_version_id)
         THEN [needs |-> TRUE,
               u |-> HandleUpdateNeeded(vs[1], mod_info.id, update_mode, content, env)]
         ELSE [needs |-> FALSE, u |-> NoUpdate(content)]

-----------------------------------------------------------------------------
(* A run of the program: check_mods or update_slugs over config["mods"] *)

VA == Version("AAA", {fabric}, {"1.20.1"}, 1, "1.2.3")
VB == Version("BBB", {Fabric}, {"1.20.1"}, 2, "1.3.0")
VF == Version("CCC", {forge}, {"1.20.1"}, 3, "2.0.0")
VS == Version("BBB", {fabric}, {"1.20.1"}, 2, "1.2.3")   \* new id, same number

\* what the registry may answer to the version request
RunLists == {<<>>, <<VA>>, <<VA, VB>>, <<VF>>, <<VB, VF>>, <<VS, VA>>}

RunBlocks ==
    {Block("std", "modrinth", "s1", "AAA"), Block("std", "modrinth", "P1", "AAA"),
     Block("std", "other", "s1", "AAA"), Block("noVer", "modrinth", "s1", "AAA"),
     Block("verFirst", "modrinth", "P1", "AAA"), Block("std", "other", "P1", "AAA")}

RunFiles == {Concat(bs) : bs \in SeqsUpTo(RunBlocks, MaxBlocks)}

\* the outcomes of the outside world during one loop iteration; an input
\* that is not consumed is held at its default
Envs ==
    {e \in [infoOk : BOOLEAN, versOk : BOOLEAN, vs : RunLists, answer : BOOLEAN,
            refetchOk : BOOLEAN, readOk : BOOLEAN, w : {"ok", "open", "cut"}] :
        /\ ~e.infoOk => ~e.versOk
        /\ ~e.versOk => e.vs = <<>> /\ ~e.answer
        /\ ~e.answer => ~e.refetchOk
        /\ ~e.refetchOk => ~e.readOk
        /\ ~e.readOk => e.w = "ok"}

\* the point at which the write fails: at open(), after open() truncated
\* the file (nothing flushed yet), or not at all; the other cut points are
\* covered by SpecPatch
WritePoint(e, content) ==
    IF e.w = "open" THEN -1 ELSE IF e.w = "cut" THEN 0 ELSE Len(content)

PatchEnv(e, content) ==
    [answer |-> e.answer, refetchOk |-> e.refetchOk, readOk |-> e.readOk,
     wo |-> WritePoint(e, content)]

Init ==
    /\ file \in RunFiles
    /\ config = LoadConfig(file)
    /\ mode \in {"check", "update", "slugs"}
    /\ specific_mods \in (IF mode = "update" THEN {{}, {"P1"}} ELSE {{}})
    /\ jar_type \in {Fabric}
    /\ mod_loader = Lower(jar_type)
    /\ mc_version = "1.20.1"
    /\ idx = 1
    /\ needs_update = <<>>
    /\ updates_performed = 0
    /\ slugs_updated = 0
    /\ step = NoStep
    /\ call = NoCall
    /\ versions = <<>>
    /\ filtered = <<>>
    /\ current_ver = <<>> /\ latest_ver = <<>> /\ color = "none"

StepRecord(kind, skipped, infoOk, versOk, u, needs) ==
    [kind |-> kind, skipped |-> skipped, infoOk |-> infoOk, versOk |-> versOk,
     needs |-> needs, prompted |-> u.prompted, accepted |-> u.accepted,
     refetched |-> u.refetched, refetchOk |-> u.refetched /\ u.call # NoCall]

RunUnchanged ==
    UNCHANGED <<config, mode, specific_mods, jar_type, mod_loader, mc_version,
                current_ver, latest_ver, color>>

\* one iteration of the loop of check_mods
CheckMod ==
    /\ mode \in {"check", "update"}
    /\ idx <= Len(config)
    /\ idx' = idx + 1
    /\ LET mod == config[idx]
       IN  IF \/ mod.type # "modrinth"
              \/ mod.id = Missing \/ mod.version = Missing
              \/ (specific_mods # {} /\ mod.id \notin specific_mods)
           THEN /\ step' = StepRecord("check", TRUE, FALSE, FALSE, NoUpdate(file), FALSE)
                /\ call' = NoCall /\ versions' = <<>> /\ filtered' = <<>>
                /\ UNCHANGED <<file, needs_update, updates_performed>>
           ELSE \E e \in Envs :
                LET mod_info == GetModInfo(mod.id, e.infoOk)
                    vs == GetModVersions(e.vs, e.versOk, mc_version, mod_loader)
                    d  == DisplayModStatus(mod_info, vs, mod.version, mode = "update",
                                           file, PatchEnv(e, file))
                IN  IF mod_info = NoProject
                    THEN /\ step' = StepRecord("check", FALSE, FALSE, FALSE,
                                               NoUpdate(file), FALSE)
                         /\ call' = NoCall /\ versions' = <<>> /\ filtered' = <<>>
                         /\ UNCHANGED <<file, needs_update, updates_performed>>
                    ELSE /\ step' = StepRecord("check", FALSE, TRUE, e.versOk, d.u, d.needs)
                         /\ call' = d.u.call
                         /\ versions' = e.vs
                         /\ filtered' = vs
                         /\ file' = d.u.content
                         /\ needs_update' = IF d.needs THEN Append(needs_update, mod.id)
                                            ELSE needs_update
                         /\ updates_performed' = updates_performed + d.u.updated
    /\ UNCHANGED slugs_updated
    /\ RunUnchanged

\* one iteration of the loop of update_slugs
SlugMod ==
    /\ mode = "slugs"
    /\ idx <= Len(config)
    /\ idx' = idx + 1
    /\ LET mod == config[idx]
       IN  IF mod.type # "modrinth" \/ mod.id = Missing
           THEN /\ step' = StepRecord("slug", TRUE, FALSE, FALSE, NoUpdate(file), FALSE)
                /\ call' = NoCall
                /\ UNCHANGED <<file, slugs_updated>>
           ELSE \E e \in Envs :
                LET mod_info == GetModInfo(mod.id, e.infoOk)
                    r == UpdateIdToSlug(file, mod.id, mod_info.slug, e.readOk,
                                        WritePoint(e, file))
                IN  /\ e.vs = <<>> /\ e.versOk = e.infoOk /\ e.refetchOk = e.answer
                    /\ IF mod_info = NoProject \/ mod_info.slug = mod.id
                       THEN /\ step' = StepRecord("slug", FALSE, mod_info # NoProject,
                                                  FALSE, NoUpdate(file), FALSE)
                            /\ call' = NoCall
                            /\ UNCHANGED <<file, slugs_updated>>
                       ELSE IF ~e.answer
                       THEN /\ step' = StepRecord("slug", FALSE, TRUE, FALSE,
                                   [NoUpdate(file) EXCEPT !.prompted = TRUE], FALSE)
                            /\ call' = NoCall
                            /\ UNCHANGED <<file, slugs_updated>>
                       ELSE /\ step' = StepRecord("slug", FALSE, TRUE, FALSE,
                                   [NoUpdate(file) EXCEPT !.prompted = TRUE,
                                                          !.accepted = TRUE], FALSE)
                            /\ call' = CallRecord("update_id_to_slug", mod.id,
                                                  mod_info.slug, e.readOk, file, r)
                            /\ file' = r.content
                            /\ slugs_updated' = slugs_updated + (IF r.result THEN 1 ELSE 0)
    /\ UNCHANGED <<needs_update, updates_performed, versions, filtered>>
    /\ RunUnchanged

Next == CheckMod \/ SlugMod

Spec == Init /\ [][Next]_vars

-----------------------------------------------------------------------------
(* Properties of a run *)

\* the header line of the idx-th [[mods]] block
HeaderOf(lines, n) == SortedSeq(ModsHeaders(lines))[n]

\* a loop iteration of check_mods has just run on config[idx]
CheckedMod == idx' = idx + 1 /\ step'.kind = "check"

\* the code got as far as reconciling the mod
Reconciled == CheckedMod /\ ~step'.skipped /\ step'.infoOk

\* the declared version is not the newest compatible one, or is not among
\* the compatible ones
OutOfDate(vs, declared) ==
    /\ vs # <<>>
    /\ \/ \A n \in 1..Len(vs) : vs[n].id # declared
       \/ vs[1].id # declared

\* C1: in update mode, when a declared registry-managed mod (declared under
\* the project id or under the slug) needs an update and the prompt is
\* accepted, then after the mod is processed the version field of its block
\* holds latest.id and updates_performed has grown by 1 (no fetch, read or
\* write failing).
C1_AcceptedUpdateIsWritten ==
    [][ ( /\ Reconciled /\ mode = "update"
          /\ step'.needs /\ step'.accepted
          /\ step'.refetchOk /\ IoFineOf(call') )
        => /\ updates_performed' = updates_performed + 1
           /\ Len(file') = Len(file)
           /\ FieldOf(file', HeaderOf(file, idx), "version") = filtered'[1].id
      ]_vars

\* C6: in a check/update run the file is written, and a prompt issued, only
\* for a mod that is registry-managed with identifier and version, is in
\* the requested set if there is one, has a non-empty filtered list and
\* needs an update, in update mode, and (for the write) after the prompt
\* was accepted; in check mode, on decline and on an empty filtered list
\* the file and updates_performed stay as they are.
C6_WritesOnlyForAcceptedUpdates ==
    [][ CheckedMod =>
          LET mod == config[idx]
              eligible ==
                  /\ mode = "update"
                  /\ mod.type = "modrinth"
                  /\ mod.id # Missing /\ mod.version # Missing
                  /\ (specific_mods = {} \/ mod.id \in specific_mods)
                  /\ step'.infoOk /\ step'.versOk
                  /\ MatchingPositions(versions', mc_version, jar_type) # {}
                  /\ OutOfDate(filtered', mod.version)
              written == call'.op # "none" /\ call'.wrote # "none"
          IN  /\ step'.prompted => eligible
              /\ written => (eligible /\ step'.accepted)
              /\ (call'.op # "none") => step'.accepted
              /\ (mode = "check" \/ ~step'.accepted \/ filtered' = <<>>)
                    => (file' = file /\ updates_performed' = updates_performed)
      ]_vars

\* an accepted update has been written by a run in update mode
C6_Witness ==
    /\ mode = "update" /\ step.kind = "check" /\ step.accepted
    /\ call.op = "update_version" /\ call.wrote = "ok"
    /\ updates_performed = 1 /\ file # call.before

\* C7: a reconciled mod is put in the needing-update result exactly when its
\* filtered list is non-empty and either no filtered version has the
\* declared id or the first filtered version has another id; a declared id
\* absent from the list gives needs_update with the update offered against
\* the first filtered version.
C7_NeedsUpdateDecision ==
    [][ Reconciled =>
          LET mod == config[idx]
              absent == \A n \in 1..Len(filtered') : filtered'[n].id # mod.version
          IN  /\ needs_update' = IF OutOfDate(filtered', mod.version)
                                 THEN Append(needs_update, mod.id)
                                 ELSE needs_update
              /\ step'.needs = OutOfDate(filtered', mod.version)
              /\ (absent /\ filtered' # <<>> /\ mode = "update") =>
                    /\ step'.prompted
                    /\ call'.op # "none" => call'.new = filtered'[1].id
      ]_vars

\* the declared version is in the filtered list but is not the newest, and
\* the mod has been reported
C7_Witness ==
    /\ step.kind = "check" /\ step.needs
    /\ Len(filtered) = 2 /\ filtered[2].id = "AAA" /\ filtered[1].id = "BBB"
    /\ needs_update # <<>>

\* C8: a mod one of whose fetches fails is skipped: it is not added to the
\* needing-update result, no prompt is issued and the file is not changed
\* for it, and the loop goes on to the next mod.
C8_FailedFetchSkipsMod ==
    [][ ( /\ CheckedMod /\ ~step'.skipped
          /\ \/ ~step'.infoOk
             \/ ~step'.versOk
             \/ (step'.refetched /\ ~step'.refetchOk) )
        => /\ needs_update' = needs_update
           /\ ~step'.prompted
           /\ file' = file
           /\ updates_performed' = updates_performed
      ]_vars

\* the lines of the [[mods]] blocks whose type is not the registry's
UnmanagedLines(lines) ==
    UNION {{h} \cup BlockLines(lines, h) :
             h \in {g \in ModsHeaders(lines) : FieldOf(lines, g, "type") # "modrinth"}}

\* C10: no operation of a run changes a line of a [[mods]] block whose type
\* is not the registry-managed one (read and write not failing).
C10_UnmanagedBlocksUntouched ==
    [][ IoFineOf(call') =>
          \A k \in UnmanagedLines(file) : k <= Len(file') /\ file'[k] = file[k]
      ]_vars

-----------------------------------------------------------------------------
(* Properties of a run in slug mode *)

\* a loop iteration of update_slugs has just run on config[idx]
SlugChecked == idx' = idx + 1 /\ step'.kind = "slug"

\* the declared identifier names one registry-managed entry only
UniqueManagedId(cfg, n) ==
    \A m \in 1..Len(cfg) :
        (m # n /\ cfg[m].type = "modrinth") => cfg[m].id # cfg[n].id

\* C11: in slug mode, when the project of a registry-managed mod has a slug
\* other than the declared identifier and the prompt is accepted, the
\* identifier field of that entry becomes the slug while every version
\* field and every other entry stay as they are; a mod whose slug equals
\* the identifier, whose fetch fails or whose prompt is declined leaves the
\* file unchanged; the count grows by one exactly on a rewrite that was
\* written (identifiers unique among the registry-managed entries, read and
\* write not failing).
C11_SlugRewritesDeclaredEntry ==
    [][ (SlugChecked /\ IoFineOf(call') /\ Len(LoadConfig(file)) = Len(config)
            /\ UniqueManagedId(LoadConfig(file), idx)) =>
          LET before == LoadConfig(file)
              after  == LoadConfig(file')
              mod    == before[idx]
          IN  /\ step'.accepted =>
                    /\ Len(after) = Len(before)
                    /\ after[idx] = [mod EXCEPT !.id = Project.slug]
                    /\ \A m \in 1..Len(before) : m # idx => after[m] = before[m]
              /\ ~step'.accepted => file' = file
              /\ slugs_updated' = slugs_updated + (IF call'.result THEN 1 ELSE 0)
      ]_vars

-----------------------------------------------------------------------------
(* The count of a check/update run *)

\* the version patch of this iteration has reached the file: the write
\* succeeded and the file is the one read with the patched line in it
PatchWritten(c, after) ==
    /\ c.op = "update_version" /\ c.readOk /\ c.wrote = "ok"
    /\ c.line \in 1..Len(c.before)
    /\ after = [c.before EXCEPT ![c.line] = NewVersionLine(c.before[c.line], c.new)]

\* C12: updates_performed counts the declared mods whose version patch was
\* written to the file: each iteration adds 0 or 1, it adds 1 exactly when
\* the patch was written (0 when the target is not found or the write
\* fails), a mod that adds 1 is also put in the needing-update result, the
\* count never exceeds that result, and the loop moves on to the next
\* declared mod whatever happened.
C12_CountsWrittenPatches ==
    [][ CheckedMod =>
          /\ updates_performed' = updates_performed
                                    + (IF PatchWritten(call', file') THEN 1 ELSE 0)
          /\ (call'.op = "update_version" /\ call'.wrote # "ok")
                => (updates_performed' = updates_performed)
          /\ (updates_performed' = updates_performed + 1)
                => needs_update' = Append(needs_update, config[idx].id)
          /\ updates_performed' <= Len(needs_update')
          /\ idx' = idx + 1
          /\ (idx' <= Len(config)) => ENABLED CheckMod
      ]_vars

\* two mods needed an update: the patch of the first was written, the write
\* of the second failed, and the count is 1
C12_Witness ==
    /\ mode = "update" /\ idx = 3
    /\ Len(needs_update) = 2 /\ updates_performed = 1
    /\ call.op = "update_version" /\ call.wrote = "write_failed" /\ ~call.result

-----------------------------------------------------------------------------
(* ModManager.get_version_color.  A version number is a sequence of        *)
(* characters; the colours stand for the severity tiers: RED major,         *)
(* YELLOW minor, GREEN patch.                                               *)

\* str.split(sep) for a one-character separator: at least one piece
RECURSIVE Split(_, _)
Split(str, sep) ==
    IF str = <<>> THEN << <<>> >>
    ELSE LET rest == Split(Tail(str), sep)
         IN  IF Head(str) = sep THEN << <<>> >> \o rest
             ELSE << <<Head(str)>> \o rest[1] >> \o Tail(rest)

\* the whole string taken as the base version
BaseVersionWithSuffix(ver) == ver

\* ver.split("+")[0].split("-")[0]
BaseVersion(ver) == Split(Split(ver, "+")[1], "-")[1]

GetVersionColor(cur, lat) ==
    LET current_parts == Split(BaseVersion(cur), ".")
        latest_parts  == Split(BaseVersion(lat), ".")
        differ == {i \in 1..Min(Len(current_parts), Len(latest_parts)) :
                      latest_parts[i] # current_parts[i]}
        first  == CHOOSE i \in differ : \A k \in differ : i <= k
    IN  IF differ = {} THEN "GREEN"
        ELSE IF first = 1 THEN "RED"
        ELSE IF first = 2 THEN "YELLOW"
        ELSE "GREEN"

-----------------------------------------------------------------------------
(* The classification on its own: any two version numbers *)

RECURSIVE Join(_)
Join(parts) ==
    IF Len(parts) = 1 THEN parts[1]
    ELSE parts[1] \o <<".">> \o Join(Tail(parts))

ComponentTexts == {<<"1">>, <<"2">>, <<"1", "0">>}

Suffixes == {<<>>, <<"+", "b">>, <<"-", "a", ".", "2">>, <<"+", "b", "-", "a">>}

ExampleVersions ==
    {<<"1", ".", "2", ".", "3">>,
     <<"1", ".", "3", ".", "0">>,
     <<"2", ".", "0", ".", "0">>,
     <<"1", ".", "2", ".", "4">>,
     <<"1", ".", "2", ".", "3", "+", "b", "u", "i", "l", "d", "1">>,
     <<"1", ".", "2", ".", "3", "+", "b", "u", "i", "l", "d", "2">>}

VersionStrings ==
    {Join(ps) \o sfx : ps \in SeqsUpTo(ComponentTexts, MaxParts), sfx \in Suffixes}
        \cup ExampleVersions

InitColor ==
    /\ file = <<>>
    /\ config = <<>>
    /\ mode = "color"
    /\ specific_mods = {}
    /\ jar_type = <<>>
    /\ mod_loader = <<>>
    /\ mc_version = ""
    /\ idx = 1
    /\ needs_update = <<>>
    /\ updates_performed = 0
    /\ slugs_updated = 0
    /\ step = NoStep
    /\ call = NoCall
    /\ versions = <<>>
    /\ filtered = <<>>
    /\ current_ver \in VersionStrings
    /\ latest_ver = <<>>
    /\ color = "none"

CallGetVersionColor ==
    /\ mode = "color" /\ color = "none"
    /\ \E lat \in VersionStrings :
          /\ latest_ver' = lat
          /\ color' = GetVersionColor(current_ver, lat)
    /\ UNCHANGED <<file, config, mode, specific_mods, jar_type, mod_loader,
                   mc_version, idx, needs_update, updates_performed,
                   slugs_updated, step, call, versions, filtered, current_ver>>

NextColor == CallGetVersionColor

SpecColor == InitColor /\ [][NextColor]_vars

\* the classification as the claim words it, on positions of the string
CutAt(str, ch) ==
    LET ps == {p \in 1..Len(str) : str[p] = ch}
    IN  IF ps = {} THEN str
        ELSE SubSeq(str, 1, (CHOOSE p \in ps : \A q \in ps : p <= q) - 1)

StrippedBase(ver) == CutAt(CutAt(ver, "+"), "-")

DotsOf(base) == SortedSeq({p \in 1..Len(base) : base[p] = "."})

\* the k-th component, counted from 0
ComponentAt(base, k) ==
    LET d == DotsOf(base)
        from == IF k = 0 THEN 1 ELSE d[k] + 1
        to   == IF k = Len(d) THEN Len(base) ELSE d[k + 1] - 1
    IN  SubSeq(base, from, to)

Severity(cur, lat) ==
    LET cb == StrippedBase(cur)
        lb == StrippedBase(lat)
        n  == Min(Len(DotsOf(cb)), Len(DotsOf(lb))) + 1
        differ == {k \in 0..(n - 1) : ComponentAt(cb, k) # ComponentAt(lb, k)}
        first  == CHOOSE k \in differ : \A m \in differ : k <= m
    IN  IF differ = {} THEN "patch"
        ELSE IF first = 0 THEN "major"
        ELSE IF first = 1 THEN "minor"
        ELSE "patch"

TierOf(c) ==
    CASE c = "RED" -> "major" [] c = "YELLOW" -> "minor" [] c = "GREEN" -> "patch"
      [] OTHER -> "none"

Classified(cur, lat, tier) ==
    (current_ver = cur /\ latest_ver = lat) => TierOf(color) = tier

\* C13: with each string cut at its first "+" and then its first "-" and the
\* rest split on ".", the tier is major when the first differing component
\* is at index 0, minor at index 1, patch at index 2 or more, and patch when
\* all compared components are equal; (1.2.3, 1.3.0) is minor,
\* (1.2.3, 2.0.0) major, (1.2.3, 1.2.4) patch and
\* (1.2.3+build1, 1.2.3+build2) patch.
C13_SeverityClassification ==
    (color # "none") =>
        /\ TierOf(color) = Severity(current_ver, latest_ver)
        /\ Classified(<<"1", ".", "2", ".", "3">>,
                      <<"1", ".", "3", ".", "0">>, "minor")
        /\ Classified(<<"1", ".", "2", ".", "3">>,
                      <<"2", ".", "0", ".", "0">>, "major")
        /\ Classified(<<"1", ".", "2", ".", "3">>,
                      <<"1", ".", "2", ".", "4">>, "patch")
        /\ Classified(<<"1", ".", "2", ".", "3", "+", "b", "u", "i", "l", "d", "1">>,
                      <<"1", ".", "2", ".", "3", "+", "b", "u", "i", "l", "d", "2">>, "patch")

\* two numbers that differ at index 1 behind an equal first component, the
\* current one carrying a build suffix
C13_Witness ==
    /\ color = "YELLOW"
    /\ current_ver = <<"1", "0", ".", "1", "+", "b">>
    /\ latest_ver = <<"1", "0", ".", "2", ".", "1">>

=============================================================================
